---- MODULE Spec2Model ----
(***************************************************************************)
(* Model of the spot-hinta.fi client: the SpotHinta fetch client           *)
(* (spothinta_api/spothinta.py) and the Electricity price series           *)
(* (spothinta_api/models.py).                                              *)
(*                                                                         *)
(* Representation.                                                         *)
(*  - An optional value (Python's None or a value) is a sequence of length *)
(*    0 or 1: None is << >>, a present value v is << v >>.                 *)
(*  - A time-zone-aware datetime is a record [utc, off]: the instant in    *)
(*    minutes since day 0, 00:00 UTC, and the UTC offset (minutes) of the  *)
(*    tzinfo it carries.  Two datetimes are equal (and hash equal) when    *)
(*    their instants are equal; date() reads the wall clock utc + off.     *)
(*  - A provider timestamp string "YYYY-MM-DDTHH:MM:SS+hh:mm" is a record  *)
(*    [wall, off]: the wall-clock minutes it spells and its offset.        *)
(*  - A price is an integer number of millionths (1 = 0.000001); round to  *)
(*    5 decimals is rounding to a multiple of 10, ties to even.            *)
(*  - A dict is the sequence of its items in insertion order, keys         *)
(*    pairwise unequal.                                                    *)
(*  - Time zones are fixed offsets: the modelled window holds no DST       *)
(*    transition.                                                          *)
(***************************************************************************)
EXTENDS Integers, Sequences, FiniteSets, TLC

VARIABLES
    session,         \* SpotHinta.session: None or <<id of a ClientSession>>
    close_session,   \* SpotHinta._close_session
    closes,          \* per ClientSession id: how many times close() ran on it
    created,         \* number of ClientSession objects the client constructed
    call,            \* per task: the energy_prices call it is running
    energy,          \* the Electricity the caller holds: None or <<object>>
    data,            \* the decoded list that Electricity was built from
    resolution,      \* sampling interval (minutes) of the feed's records
    clock,           \* the system clock: the current instant (UTC minutes)
    hostTz,          \* UTC offset of the host machine's local time zone
    result           \* what the caller's last read of the series returned

vars == <<session, close_session, closes, created, call, energy, data,
          resolution, clock, hostTz, result>>

\* ------------------------------------------------------------------ bounds

\* Longest record list the feed answers with.
MaxRecords == 2

\* Tasks that may run energy_prices on the one client at the same time.
NumTasks == 2

\* ClientSession objects the client may construct in one run.
MaxSessions == 2

\* Times close() may run on one session in one run.
MaxCloses == 2

\* ------------------------------------------------------- optional values

None == << >>

Some(v) == << v >>

IsNone(o) == o = << >>

\* --------------------------------------------------------------- datetime

\* timedelta(hours=1), in minutes.
Hour == 60

\* timedelta(days=1), in minutes.
Day == 1440

\* round(x, 5) on millionths: the rounding step.
RoundUnit == 10

\* datetime.strptime(s, "%Y-%m-%dT%H:%M:%S%z"): the instant is the wall clock
\* the string spells minus its offset; the offset is kept as tzinfo.
strptime(s) == [utc |-> s.wall - s.off, off |-> s.off]

\* datetime + timedelta.
plus(dt, minutes) == [utc |-> dt.utc + minutes, off |-> dt.off]

\* datetime.astimezone(): the same instant carried in the host's local zone.
astimezone(dt) == [utc |-> dt.utc, off |-> hostTz]

\* datetime.date(): the civil day of the wall clock the datetime carries.
date(dt) == (dt.utc + dt.off) \div Day

\* num / den rounded to a multiple of RoundUnit, ties to the even multiple.
RoundRatio(num, den) ==
    LET d == den * RoundUnit
        f == num \div d
        r == num - f * d
    IN  IF 2 * r < d THEN f * RoundUnit
        ELSE IF 2 * r > d THEN (f + 1) * RoundUnit
        ELSE IF f % 2 = 0 THEN f * RoundUnit
        ELSE (f + 1) * RoundUnit

\* round(price, 5).
round5(price) == RoundRatio(price, 1)

\* ------------------------------------------------------ regions and zones

Regions ==
    {"DK1", "DK2", "FI", "EE", "LT", "LV", "NO1", "NO2", "NO3", "NO4", "NO5",
     "SE1", "SE2", "SE3", "SE4"}

\* The regions the callers of the client and series specifications ask for:
\* one per UTC offset.
AskedRegions == {"FI", "SE1"}

\* REGION_TO_TIMEZONE with the entry of the last region left out.
RegionToTimezoneWithoutSE4 ==
    ("DK1" :> "Europe/Copenhagen") @@ ("DK2" :> "Europe/Copenhagen")
    @@ ("FI" :> "Europe/Helsinki") @@ ("EE" :> "Europe/Tallinn")
    @@ ("LT" :> "Europe/Vilnius") @@ ("LV" :> "Europe/Riga")
    @@ ("NO1" :> "Europe/Oslo") @@ ("NO2" :> "Europe/Oslo")
    @@ ("NO3" :> "Europe/Oslo") @@ ("NO4" :> "Europe/Oslo")
    @@ ("NO5" :> "Europe/Oslo") @@ ("SE1" :> "Europe/Stockholm")
    @@ ("SE2" :> "Europe/Stockholm") @@ ("SE3" :> "Europe/Stockholm")

\* The dict literal, entry by entry; a value is the key of its ZoneInfo.
REGION_TO_TIMEZONE ==
    ("DK1" :> "Europe/Copenhagen") @@ ("DK2" :> "Europe/Copenhagen")
    @@ ("FI" :> "Europe/Helsinki") @@ ("EE" :> "Europe/Tallinn")
    @@ ("LT" :> "Europe/Vilnius") @@ ("LV" :> "Europe/Riga")
    @@ ("NO1" :> "Europe/Oslo") @@ ("NO2" :> "Europe/Oslo")
    @@ ("NO3" :> "Europe/Oslo") @@ ("NO4" :> "Europe/Oslo")
    @@ ("NO5" :> "Europe/Oslo") @@ ("SE1" :> "Europe/Stockholm")
    @@ ("SE2" :> "Europe/Stockholm") @@ ("SE3" :> "Europe/Stockholm")
    @@ ("SE4" :> "Europe/Stockholm")

\* The zone's UTC offset in summer time, minutes.
ZoneOffset(zone) ==
    IF zone \in {"Europe/Helsinki", "Europe/Tallinn", "Europe/Vilnius",
                 "Europe/Riga"}
    THEN 3 * Hour
    ELSE 2 * Hour

\* Offsets of the host's local zone: a UTC server, a Helsinki desktop.
HostOffsets == {0, 3 * Hour}

\* ------------------------------------------------------------ Electricity

\* DictSet as dict.setdefault would do it: an equal key keeps its old value.
DictSetKeepFirst(prices, key, value) ==
    IF \E i \in 1..Len(prices) : prices[i].timestamp.utc = key.utc
    THEN prices
    ELSE Append(prices, [timestamp |-> key, price |-> value])

\* prices[key] = value on a dict: an equal key (the same instant) keeps its
\* place and its key object and takes the new value; a new key is appended.
DictSet(prices, key, value) ==
    IF \E i \in 1..Len(prices) : prices[i].timestamp.utc = key.utc
    THEN [i \in 1..Len(prices) |->
            IF prices[i].timestamp.utc = key.utc
            THEN [timestamp |-> prices[i].timestamp, price |-> value]
            ELSE prices[i]]
    ELSE Append(prices, [timestamp |-> key, price |-> value])

RECURSIVE FromDictLoop(_, _, _)
\* The loop of from_dict over the items from index i on.
FromDictLoop(items, i, prices) ==
    IF i > Len(items) THEN prices
    ELSE FromDictLoop(items, i + 1,
            DictSet(prices, strptime(items[i].DateTime),
                    items[i].PriceWithTax))

\* Electricity.from_dict(data, time_zone).
from_dict(items, time_zone) ==
    [prices |-> FromDictLoop(items, 1, << >>), time_zone |-> time_zone]

\* The width of the window _timed_value gives every entry.
TimedWindow == Hour

RECURSIVE TimedScanFirstMatch(_, _, _, _)
\* TimedScan with a break after the assignment: the first match is returned.
TimedScanFirstMatch(moment, prices, i, value) ==
    IF i > Len(prices) THEN value
    ELSE LET timestamp == prices[i].timestamp
             future_dt == plus(timestamp, TimedWindow)
         IN  IF timestamp.utc <= moment.utc /\ moment.utc < future_dt.utc
             THEN Some(round5(prices[i].price))
             ELSE TimedScanFirstMatch(moment, prices, i + 1, value)

RECURSIVE TimedScan(_, _, _, _)
\* The loop of _timed_value from index i on: no early exit, a later match
\* overwrites an earlier one.
TimedScan(moment, prices, i, value) ==
    IF i > Len(prices) THEN value
    ELSE LET timestamp == prices[i].timestamp
             future_dt == plus(timestamp, TimedWindow)
         IN  TimedScan(moment, prices, i + 1,
                IF timestamp.utc <= moment.utc /\ moment.utc < future_dt.utc
                THEN Some(round5(prices[i].price))
                ELSE value)

\* _timed_value with the loop left at its first match.
TimedValueFirstMatch(moment, prices) ==
    TimedScanFirstMatch(moment, prices, 1, None)

_timed_value(moment, prices) == TimedScan(moment, prices, 1, None)

\* Electricity.now_in_timezone(): datetime.now(tz=self.time_zone).
now_in_timezone(e) == [utc |-> clock, off |-> ZoneOffset(e.time_zone)]

\* Electricity.price_at_time(moment).
price_at_time(e, moment) ==
    LET value == _timed_value(moment, e.prices)
    IN  IF ~IsNone(value) \/ value = Some(0) THEN value ELSE None

\* Electricity.current_price.
current_price(e) == price_at_time(e, now_in_timezone(e))

\* The day prices_today compares every key's date() with.
TodayDate(e) == date(astimezone(now_in_timezone(e)))

\* The day prices_tomorrow compares every key's date() with.
TomorrowDate(e) == date(astimezone(plus(now_in_timezone(e), Day)))

\* Electricity.prices_today().
prices_today(e) ==
    LET today == TodayDate(e)
    IN  SelectSeq(e.prices, LAMBDA item : date(item.timestamp) = today)

\* Electricity.prices_tomorrow().
prices_tomorrow(e) ==
    LET tomorrow == TomorrowDate(e)
    IN  SelectSeq(e.prices, LAMBDA item : date(item.timestamp) = tomorrow)

\* dict.values() as the set of its indices' prices.
Values(prices) == {prices[i].price : i \in 1..Len(prices)}

\* min(values), max(values) of a nonempty collection.
Min(S) == CHOOSE x \in S : \A y \in S : x <= y

Max(S) == CHOOSE x \in S : \A y \in S : x >= y

RECURSIVE Sum(_, _)
\* sum(prices.values()) from index i on.
Sum(prices, i) ==
    IF i > Len(prices) THEN 0 ELSE prices[i].price + Sum(prices, i + 1)

\* LowestPrice with the round() left out.
LowestPriceUnrounded(prices) ==
    IF Len(prices) = 0 THEN None ELSE Some(Min(Values(prices)))

\* The body shared by lowest_price_today and lowest_price_tomorrow.
LowestPrice(prices) ==
    IF Len(prices) = 0 THEN None ELSE Some(round5(Min(Values(prices))))

\* The body shared by highest_price_today and highest_price_tomorrow.
HighestPrice(prices) ==
    IF Len(prices) = 0 THEN None ELSE Some(round5(Max(Values(prices))))

\* AveragePrice with the round() left out: the mean to the millionth.
AveragePriceUnrounded(prices) ==
    IF Len(prices) = 0 THEN None ELSE Some(Sum(prices, 1) \div Len(prices))

\* The body shared by average_price_today and average_price_tomorrow.
AveragePrice(prices) ==
    IF Len(prices) = 0 THEN None
    ELSE Some(RoundRatio(Sum(prices, 1), Len(prices)))

lowest_price_today(e) == LowestPrice(prices_today(e))

lowest_price_tomorrow(e) == LowestPrice(prices_tomorrow(e))

highest_price_today(e) == HighestPrice(prices_today(e))

highest_price_tomorrow(e) == HighestPrice(prices_tomorrow(e))

average_price_today(e) == AveragePrice(prices_today(e))

average_price_tomorrow(e) == AveragePrice(prices_tomorrow(e))

\* min(prices, key=prices.get) / max(prices, key=prices.get): the first key,
\* in insertion order, whose value is the extreme.
FirstKeyWith(prices, value) ==
    prices[Min({i \in 1..Len(prices) : prices[i].price = value})].timestamp

\* _get_pricetime(prices, min).
PriceTimeMin(prices) ==
    IF Len(prices) = 0 THEN None
    ELSE Some(FirstKeyWith(prices, Min(Values(prices))))

\* _get_pricetime(prices, max).
PriceTimeMax(prices) ==
    IF Len(prices) = 0 THEN None
    ELSE Some(FirstKeyWith(prices, Max(Values(prices))))

\* Electricity.generate_timestamp_list(prices).
generate_timestamp_list(prices) ==
    [i \in 1..Len(prices) |->
        [timestamp |-> prices[i].timestamp, price |-> round5(prices[i].price)]]

timestamp_prices(e) == generate_timestamp_list(e.prices)

timestamp_prices_today(e) == generate_timestamp_list(prices_today(e))

\* "self.current_price or 0": None and 0.0 are both falsy.
CurrentOrZero(e) ==
    LET current == current_price(e)
    IN  IF IsNone(current) \/ current = Some(0) THEN 0 ELSE current[1]

\* Electricity.hours_priced_equal_or_lower.
hours_priced_equal_or_lower(e) ==
    LET today == prices_today(e)
    IN  Cardinality({i \in 1..Len(today) : today[i].price <= CurrentOrZero(e)})

\* -------------------------------------------------------------- the feed

\* Sampling intervals the feed serves, minutes.
Resolutions == {15, Hour}

\* Prices the feed may quote, in millionths: negative, rounding to zero,
\* rounding up.  Neither a price nor a mean of up to four of them sits on a
\* rounding tie.
Prices == {-14, 3, 16}

\* Timestamp strings of the feed.  Midnight of day 2 in UTC+3, the same
\* instant spelled in UTC, an hour later, noon of day 1, and a quarter past
\* midnight: on the grid of a quarter-hourly feed, and a stray record that
\* overlaps the hour from midnight in an hourly one.
Stamps(res) ==
    {[wall |-> 2 * Day, off |-> 3 * Hour],
     [wall |-> Day + 21 * Hour, off |-> 0],
     [wall |-> 2 * Day + Hour, off |-> 3 * Hour],
     [wall |-> Day + 12 * Hour, off |-> 3 * Hour],
     [wall |-> 2 * Day + 15, off |-> 3 * Hour]}

Records(res) ==
    {[DateTime |-> s, PriceWithTax |-> p] : s \in Stamps(res), p \in Prices}

SeqsUpTo(S, n) == UNION {[1..k -> S] : k \in 0..n}

\* Every JSON array the feed may answer with, at sampling interval res.
Bodies(res) == SeqsUpTo(Records(res), MaxRecords)

\* The arrays of the client specification: empty, and one hourly pair.
SmallBodies(res) ==
    {<< >>,
     <<[DateTime |-> [wall |-> 2 * Day, off |-> 3 * Hour], PriceWithTax |-> 16],
       [DateTime |-> [wall |-> 2 * Day + res, off |-> 3 * Hour],
        PriceWithTax |-> -14]>>}

\* Instants the clock is read at (UTC minutes): 12:30 of day 1, 00:10 and
\* 00:40 of day 2 on the UTC+3 wall clock.
Instants == {Day + 9 * Hour + 30, Day + 21 * Hour + 10, Day + 21 * Hour + 40}

\* Arguments of price_at_time: the instants, as UTC datetimes.
Moments == {[utc |-> i, off |-> 0] : i \in Instants}

ContentTypes ==
    {"application/json", "application/json; charset=utf-8", "blabla/blabla", ""}

\* "application/json" in content_type.
HasJson(content_type) ==
    content_type \in {"application/json", "application/json; charset=utf-8"}

Statuses == {200, 404, 429}

\* What the awaited session.request (with the body reads that follow it)
\* may bring: a timeout, a DNS failure, a transport failure, or a response.
Responses(types, bodies) ==
    {[kind |-> k, status |-> 0, content_type |-> "", body |-> << >>] :
        k \in {"timeout", "gaierror", "client_error"}}
    \cup {[kind |-> "http", status |-> st, content_type |-> "", body |-> << >>] :
            st \in Statuses \ {200}}
    \cup {[kind |-> "http", status |-> 200, content_type |-> ct, body |-> b] :
            ct \in types, b \in bodies}

\* What the call has seen of the response: all but the array itself.
Seen(resp) ==
    [kind |-> resp.kind, status |-> resp.status,
     content_type |-> resp.content_type, empty |-> Len(resp.body) = 0]

\* --------------------------------------------------------------- SpotHinta

Tasks == 1..NumTasks

\* Session 0 is the one a caller may pass in; the client constructs 1, 2, ...
SessionIds == 0..MaxSessions

\* Values a caller may pass as resolution=, in minutes; None: not passed.
ResolutionArgs == {None, Some(45), Some(Hour)}

IdleCall ==
    [pc |-> "idle", region |-> "FI", resolution_arg |-> None, requests |-> 0,
     via |-> None, created_session |-> FALSE, response |-> None,
     body |-> << >>, res |-> Hour, tz_lookups |-> 0, from_dict_calls |-> 0,
     outcome |-> ""]

\* RequestError without the HTTP 429 branch, as the client was before it knew
\* rate limiting.
RequestErrorNoRateLimit(resp) ==
    CASE resp.kind = "timeout" -> "SpotHintaConnectionError"
      [] resp.kind \in {"gaierror", "client_error"} -> "SpotHintaConnectionError"
      [] resp.kind = "http" /\ resp.status >= 400 -> "SpotHintaConnectionError"
      [] resp.kind = "http" /\ resp.status < 400 /\ ~HasJson(resp.content_type) ->
            "SpotHintaError"
      [] OTHER -> ""

\* The exception _request raises for what the awaited request brought, ""
\* when it returns the decoded JSON.
RequestError(resp) ==
    CASE resp.kind = "timeout" -> "SpotHintaConnectionError"
      [] resp.kind \in {"gaierror", "client_error"} -> "SpotHintaConnectionError"
      [] resp.kind = "http" /\ resp.status >= 400 ->
            IF resp.status = 429 THEN "SpotHintaRateLimitError"
            ELSE "SpotHintaConnectionError"
      [] resp.kind = "http" /\ resp.status < 400 /\ ~HasJson(resp.content_type) ->
            "SpotHintaError"
      [] OTHER -> ""

\* EnergyPricesCall with a _request that makes a ClientSession for every
\* request of a client constructed without one, instead of keeping the first.
EnergyPricesCallSessionPerFetch(t, region, resolution_arg) ==
    /\ call[t].pc = "idle"
    /\ IF ~IsNone(resolution_arg)
       THEN /\ call' = [call EXCEPT ![t] =
                    [IdleCall EXCEPT !.pc = "done", !.region = region,
                        !.resolution_arg = resolution_arg,
                        !.outcome = "TypeError"]]
            /\ UNCHANGED <<session, close_session, created>>
       ELSE LET make == session # Some(0)
                sid == IF make THEN created + 1 ELSE session[1]
            IN  /\ make => created < MaxSessions
                /\ session' = Some(sid)
                /\ close_session' = (IF make THEN TRUE ELSE close_session)
                /\ created' = (IF make THEN created + 1 ELSE created)
                /\ IF closes[sid] > 0
                   THEN call' = [call EXCEPT ![t] =
                            [IdleCall EXCEPT !.pc = "done", !.region = region,
                                !.created_session = make, !.via = Some(sid),
                                !.outcome = "RuntimeError"]]
                   ELSE call' = [call EXCEPT ![t] =
                            [IdleCall EXCEPT !.pc = "request",
                                !.region = region, !.created_session = make,
                                !.requests = 1, !.via = Some(sid)]]
    /\ UNCHANGED <<closes, energy, data, resolution, clock, hostTz, result>>

\* energy_prices is entered, and runs to its first await: the call binds its
\* arguments (the signature has region only), then _request takes or makes
\* the session and calls its request().  The check for None and the
\* assignment are one step: no await lies between them.  A ClientSession
\* that has been closed raises RuntimeError from request() and sends
\* nothing; via is the session request() was called on.
EnergyPricesCall(t, region, resolution_arg) ==
    /\ call[t].pc = "idle"
    /\ IF ~IsNone(resolution_arg)
       THEN /\ call' = [call EXCEPT ![t] =
                    [IdleCall EXCEPT !.pc = "done", !.region = region,
                        !.resolution_arg = resolution_arg,
                        !.outcome = "TypeError"]]
            /\ UNCHANGED <<session, close_session, created>>
       ELSE LET make == IsNone(session)
                sid == IF make THEN created + 1 ELSE session[1]
            IN  /\ make => created < MaxSessions
                /\ session' = Some(sid)
                /\ close_session' = (IF make THEN TRUE ELSE close_session)
                /\ created' = (IF make THEN created + 1 ELSE created)
                /\ IF closes[sid] > 0
                   THEN call' = [call EXCEPT ![t] =
                            [IdleCall EXCEPT !.pc = "done", !.region = region,
                                !.created_session = make, !.via = Some(sid),
                                !.outcome = "RuntimeError"]]
                   ELSE call' = [call EXCEPT ![t] =
                            [IdleCall EXCEPT !.pc = "request",
                                !.region = region, !.created_session = make,
                                !.requests = 1, !.via = Some(sid)]]
    /\ UNCHANGED <<closes, energy, data, resolution, clock, hostTz, result>>

\* RequestReturns with the "len(data) == 0" check left out of energy_prices.
RequestReturnsNoEmptyCheck(t, resp, res) ==
    /\ call[t].pc = "request"
    /\ LET error == RequestError(resp)
       IN  call' = [call EXCEPT ![t] =
                IF error # ""
                THEN [@ EXCEPT !.pc = "done", !.response = Some(Seen(resp)),
                               !.outcome = error]
                ELSE IF call[t].region \notin DOMAIN REGION_TO_TIMEZONE
                THEN [@ EXCEPT !.pc = "done", !.response = Some(Seen(resp)),
                               !.outcome = "KeyError"]
                ELSE [@ EXCEPT !.pc = "time_zone", !.response = Some(Seen(resp)),
                               !.body = resp.body, !.res = res,
                               !.tz_lookups = @ + 1]]
    /\ UNCHANGED <<session, close_session, closes, created, energy, data,
                   resolution, clock, hostTz, result>>

\* The awaited request completes: _request raises or returns the decoded
\* array, and energy_prices goes on to its emptiness check and, past it, to
\* REGION_TO_TIMEZONE[region], a KeyError if the dict has no such key, and
\* the await of the time-zone lookup.
RequestReturns(t, resp, res) ==
    /\ call[t].pc = "request"
    /\ LET error == RequestError(resp)
       IN  call' = [call EXCEPT ![t] =
                IF error # ""
                THEN [@ EXCEPT !.pc = "done", !.response = Some(Seen(resp)),
                               !.outcome = error]
                ELSE IF Len(resp.body) = 0
                THEN [@ EXCEPT !.pc = "done", !.response = Some(Seen(resp)),
                               !.outcome = "SpotHintaNoDataError"]
                ELSE IF call[t].region \notin DOMAIN REGION_TO_TIMEZONE
                THEN [@ EXCEPT !.pc = "done", !.response = Some(Seen(resp)),
                               !.outcome = "KeyError"]
                ELSE [@ EXCEPT !.pc = "time_zone", !.response = Some(Seen(resp)),
                               !.body = resp.body, !.res = res,
                               !.tz_lookups = @ + 1]]
    /\ UNCHANGED <<session, close_session, closes, created, energy, data,
                   resolution, clock, hostTz, result>>

\* async_get_time_zone returns: from_dict builds the series and energy_prices
\* returns it to the caller, who drops the one held before.
TimeZoneResolved(t) ==
    /\ call[t].pc = "time_zone"
    /\ call' = [call EXCEPT ![t] =
            [@ EXCEPT !.pc = "done", !.from_dict_calls = @ + 1,
                      !.outcome = "Electricity"]]
    /\ energy' = Some(from_dict(call[t].body, REGION_TO_TIMEZONE[call[t].region]))
    /\ data' = call[t].body
    /\ resolution' = call[t].res
    /\ result' = None
    /\ UNCHANGED <<session, close_session, closes, created, clock, hostTz>>

\* The caller has taken the call's outcome; the task may fetch again.
Return(t) ==
    /\ call[t].pc = "done"
    /\ call' = [call EXCEPT ![t] = IdleCall]
    /\ UNCHANGED <<session, close_session, closes, created, energy, data,
                   resolution, clock, hostTz, result>>

\* close without the test of _close_session: whatever session the client
\* holds is closed.
CloseAnySession ==
    /\ ~IsNone(session)
    /\ closes[session[1]] < MaxCloses
    /\ closes' = [closes EXCEPT ![session[1]] = @ + 1]
    /\ UNCHANGED <<session, close_session, created, call, energy, data,
                   resolution, clock, hostTz, result>>

\* SpotHinta.close(), also run by __aexit__: session.close() is awaited when
\* the client holds a session and owns it.  Neither field is reset, so every
\* further close() awaits session.close() again.
close ==
    /\ ~IsNone(session) /\ close_session
    /\ closes[session[1]] < MaxCloses
    /\ closes' = [closes EXCEPT ![session[1]] = @ + 1]
    /\ UNCHANGED <<session, close_session, created, call, energy, data,
                   resolution, clock, hostTz, result>>

\* ------------------------------------------------------------- the caller

\* The caller's last read was of every property.
IsRead == ~IsNone(result) /\ result[1].op = "read"

\* The caller's last read was a price_at_time lookup.
IsLookup == ~IsNone(result) /\ result[1].op = "price_at_time"

\* Time passes.
Tick ==
    /\ \E t \in Instants : t > clock /\ clock' = t
    /\ result' = None
    /\ UNCHANGED <<session, close_session, closes, created, call, energy, data,
                   resolution, hostTz>>

\* What every property and day partition of series e returns, read one after
\* the other with the clock standing still.
ReadOf(e) ==
    [op |-> "read",
     current_price |-> current_price(e),
     lowest_price_today |-> lowest_price_today(e),
     lowest_price_tomorrow |-> lowest_price_tomorrow(e),
     highest_price_today |-> highest_price_today(e),
     highest_price_tomorrow |-> highest_price_tomorrow(e),
     average_price_today |-> average_price_today(e),
     average_price_tomorrow |-> average_price_tomorrow(e),
     highest_price_time_today |-> PriceTimeMax(prices_today(e)),
     highest_price_time_tomorrow |-> PriceTimeMax(prices_tomorrow(e)),
     lowest_price_time_today |-> PriceTimeMin(prices_today(e)),
     lowest_price_time_tomorrow |-> PriceTimeMin(prices_tomorrow(e)),
     timestamp_prices |-> timestamp_prices(e),
     timestamp_prices_today |-> timestamp_prices_today(e),
     hours_priced_equal_or_lower |-> hours_priced_equal_or_lower(e),
     prices_today |-> prices_today(e),
     prices_tomorrow |-> prices_tomorrow(e)]

\* Read with a prices_today that moves today's entries out of self.prices
\* instead of copying them.
ReadConsuming ==
    /\ ~IsNone(energy)
    /\ result' = Some(ReadOf(energy[1]))
    /\ energy' = Some([energy[1] EXCEPT !.prices =
                    SelectSeq(@, LAMBDA item :
                        date(item.timestamp) # TodayDate(energy[1]))])
    /\ UNCHANGED <<session, close_session, closes, created, call, data,
                   resolution, clock, hostTz>>

\* The caller reads every property of the series it holds, the clock
\* standing still meanwhile (as print_prices and the frozen-time tests do).
\* No property assigns to self.prices or self.time_zone.
Read ==
    /\ ~IsNone(energy)
    /\ result' = Some(ReadOf(energy[1]))
    /\ UNCHANGED <<session, close_session, closes, created, call, energy, data,
                   resolution, clock, hostTz>>

\* The caller asks the series it holds for the price at a moment.
PriceAtTime(moment) ==
    /\ ~IsNone(energy)
    /\ result' = Some([op |-> "price_at_time", moment |-> moment,
                       value |-> price_at_time(energy[1], moment)])
    /\ UNCHANGED <<session, close_session, closes, created, call, energy, data,
                   resolution, clock, hostTz>>

\* The queries that hand out a mutable container.
ContainerQueries ==
    {"prices_today", "prices_tomorrow", "timestamp_prices",
     "timestamp_prices_today"}

\* ReturnedObject if prices_today and prices_tomorrow handed out self.prices
\* itself.
ReturnedObjectShared(query) ==
    IF query \in {"prices_today", "prices_tomorrow"} THEN "self.prices"
    ELSE "new"

\* The container a query returns: the dict the series holds ("self.prices")
\* or one the call has built ("new").  prices_today and prices_tomorrow fill
\* a dict they create, generate_timestamp_list a list it creates.
ReturnedObject(query) == "new"

\* The caller empties a container a query has returned (dict.clear(),
\* list.clear()); the series loses its entries if it is the same object.
Mutate ==
    /\ IsRead
    /\ \E query \in ContainerQueries :
            energy' = (IF ReturnedObject(query) = "self.prices"
                       THEN Some([energy[1] EXCEPT !.prices = << >>])
                       ELSE energy)
    /\ result' = Some([op |-> "mutated"])
    /\ UNCHANGED <<session, close_session, closes, created, call, data,
                   resolution, clock, hostTz>>

\* ---------------------------------------------------------- specifications

\* A client just constructed, nothing fetched yet.
Constructed ==
    /\ close_session = FALSE
    /\ closes = [i \in SessionIds |-> 0]
    /\ created = 0
    /\ call = [t \in Tasks |-> IdleCall]
    /\ energy = None
    /\ data = << >>
    /\ resolution = Hour
    /\ result = None

\* After SpotHinta(...) is constructed, with or without a caller's session,
\* on a UTC host.
Init ==
    /\ Constructed
    /\ session \in {None, Some(0)}
    /\ clock = Day + 9 * Hour + 30
    /\ hostTz = 0

Next ==
    \/ \E t \in Tasks, region \in AskedRegions, ra \in ResolutionArgs :
            EnergyPricesCall(t, region, ra)
    \/ \E t \in Tasks :
            /\ call[t].pc = "request"
            /\ \E resp \in Responses(ContentTypes, SmallBodies(Hour)) :
                    RequestReturns(t, resp, Hour)
    \/ \E t \in Tasks : TimeZoneResolved(t)
    \/ \E t \in Tasks : Return(t)
    \/ close

\* The client: its calls, its session and the responses it may get.
Spec == Init /\ [][Next]_vars

\* The client as the model tests build it, SpotHinta(session=session), on
\* any host and with the clock frozen at any instant.
InitSeries ==
    /\ Constructed
    /\ session = Some(0)
    /\ clock \in Instants
    /\ hostTz \in HostOffsets

\* One fetch, answered with any array of the feed, and the reads that follow.
NextSeries ==
    \/ \E region \in AskedRegions : EnergyPricesCall(1, region, None)
    \/ /\ call[1].pc = "request"
       /\ \E res \in Resolutions :
            \E resp \in Responses({"application/json"}, Bodies(res)) :
                RequestReturns(1, resp, res)
    \/ TimeZoneResolved(1)
    \/ Tick
    \/ Read
    \/ \E moment \in Moments : PriceAtTime(moment)
    \/ Mutate

\* The price series over every array of the feed.
SpecSeries == InitSeries /\ [][NextSeries]_vars

\* Fetches for any member of Region, one at a time, each answered with an
\* error, an empty array or an hourly pair of records.
NextRegions ==
    \/ \E region \in Regions : EnergyPricesCall(1, region, None)
    \/ /\ call[1].pc = "request"
       /\ \E resp \in Responses({"application/json"}, SmallBodies(Hour)) :
            RequestReturns(1, resp, Hour)
    \/ TimeZoneResolved(1)
    \/ Return(1)

\* The client asked for every region.
SpecRegions == Init /\ [][NextRegions]_vars

\* ------------------------------------------------------------------ claims

\* Indices of the entries whose window [k, k + resolution) holds instant t,
\* the window as wide as the feed's sampling interval.
Covering(prices, t) ==
    {i \in 1..Len(prices) :
        /\ prices[i].timestamp.utc <= t
        /\ t < prices[i].timestamp.utc + resolution}

\* C1: price_at_time(t) is absent when no entry k has k <= t < k + resolution,
\* and is the rounded price of the entry when exactly one has, at every
\* sampling interval of the feed (15 and 60 minutes).
C1_PriceAtTimeByResolution ==
    IsLookup =>
        LET prices == energy[1].prices
            cover == Covering(prices, result[1].moment.utc)
        IN  /\ cover = {} => IsNone(result[1].value)
            /\ Cardinality(cover) = 1 =>
                \A i \in cover :
                    result[1].value = Some(round5(prices[i].price))

\* The civil day of an instant on the wall clock of a zone.
DayIn(zone, utc) == (utc + ZoneOffset(zone)) \div Day

\* The entries whose timestamp, in the series' reference zone, falls on the
\* day of now() in that zone plus offset days.
DayPartition(e, offset) ==
    SelectSeq(e.prices,
        LAMBDA item : DayIn(e.time_zone, item.timestamp.utc)
                        = DayIn(e.time_zone, clock) + offset)

\* C2: prices_today (prices_tomorrow) is exactly the entries whose date in
\* the reference zone is the date of now() in that zone (plus one day),
\* whatever offset the provider spelled and whatever the host's zone is.
C2_DayPartitionInReferenceZone ==
    IsRead =>
        /\ result[1].prices_today = DayPartition(energy[1], 0)
        /\ result[1].prices_tomorrow = DayPartition(energy[1], 1)

\* C3: the equal-or-lower count is 0 when today's partition is empty, is the
\* number of today's entries priced at or below the current price when there
\* is one, and is at least 1 when now() lies inside an interval of today's
\* partition.
C3_EqualOrLowerCount ==
    IsRead =>
        LET today == result[1].prices_today
            current == result[1].current_price
            count == result[1].hours_priced_equal_or_lower
        IN  /\ Len(today) = 0 => count = 0
            /\ (Len(today) > 0 /\ ~IsNone(current)) =>
                count = Cardinality({i \in 1..Len(today) :
                                        today[i].price <= current[1]})
            /\ Covering(today, clock) # {} => count >= 1

\* C4: when no interval of the series covers now(), current_price is absent
\* and the equal-or-lower count is 0, whatever today's partition holds.
C4_GapGivesNoPriceAndZeroCount ==
    (IsRead /\ Covering(energy[1].prices, clock) = {}) =>
        /\ IsNone(result[1].current_price)
        /\ result[1].hours_priced_equal_or_lower = 0

\* The instant a record's timestamp string denotes.
InstantOf(record) == record.DateTime.wall - record.DateTime.off

\* C5 as stated: timestamp_prices has as many entries as the input list, in
\* input order, each with the record's timestamp and its rounded price, for
\* every input list, also one in which two records denote the same instant.
C5_RoundTripEveryList ==
    IsRead =>
        LET listed == result[1].timestamp_prices
        IN  /\ Len(listed) = Len(data)
            /\ \A i \in 1..Len(data) :
                /\ i <= Len(listed)
                /\ listed[i].timestamp.utc = InstantOf(data[i])
                /\ listed[i].timestamp.off = data[i].DateTime.off
                /\ listed[i].price = round5(data[i].PriceWithTax)

\* Indices of the records that are the first of the list to denote their
\* instant.
Firsts(items) ==
    {i \in 1..Len(items) :
        \A j \in 1..(i - 1) : InstantOf(items[j]) # InstantOf(items[i])}

\* The index of the last record denoting the same instant as record i.
LastSame(items, i) ==
    Max({j \in 1..Len(items) : InstantOf(items[j]) = InstantOf(items[i])})

\* C5 amended: timestamp_prices has one entry per distinct instant of the
\* input list, in the order the instants first occur; an entry carries the
\* timestamp (instant and offset) of the first record denoting its instant and
\* the rounded price of the last record denoting it.  When the records denote
\* pairwise distinct instants that is one entry per record, in input order,
\* with the record's own timestamp and rounded price.
C5_RoundTripDistinctInstants ==
    IsRead =>
        LET listed == result[1].timestamp_prices
            firsts == Firsts(data)
        IN  /\ Len(listed) = Cardinality(firsts)
            /\ \A i \in firsts :
                LET k == Cardinality({j \in firsts : j <= i})
                IN  /\ k <= Len(listed)
                    /\ listed[k].timestamp.utc = InstantOf(data[i])
                    /\ listed[k].timestamp.off = data[i].DateTime.off
                    /\ listed[k].price =
                            round5(data[LastSame(data, i)].PriceWithTax)

\* C5's case: a list read back whose two records denote one instant at
\* different prices, and so come back as one entry.
C5_Witness ==
    /\ IsRead
    /\ Len(data) = 2
    /\ InstantOf(data[1]) = InstantOf(data[2])
    /\ data[1].PriceWithTax # data[2].PriceWithTax
    /\ Len(result[1].timestamp_prices) = 1

\* A call that has ended after a 2xx JSON response holding an empty array.
EndedOnEmptyArray(c) ==
    /\ c.pc = "done"
    /\ ~IsNone(c.response)
    /\ c.response[1].kind = "http"
    /\ c.response[1].status = 200
    /\ HasJson(c.response[1].content_type)
    /\ c.response[1].empty

\* C6: a successful answer holding an empty JSON array ends the call with
\* SpotHintaNoDataError, before any time-zone lookup and before from_dict: no
\* Electricity is built or returned.
C6_EmptyArrayIsNoData ==
    \A t \in Tasks :
        EndedOnEmptyArray(call[t]) =>
            /\ call[t].outcome = "SpotHintaNoDataError"
            /\ call[t].tz_lookups = 0
            /\ call[t].from_dict_calls = 0

\* C6's case: a call has ended on an empty array.
C6_Witness ==
    \E t \in Tasks :
        EndedOnEmptyArray(call[t]) /\ call[t].outcome = "SpotHintaNoDataError"

\* C7: energy_prices called with a resolution outside the supported set ends
\* with SpotHintaUnsupportedResolutionError, having sent no request and made
\* no session.
C7_UnsupportedResolutionRejected ==
    \A t \in Tasks :
        (/\ call[t].pc = "done"
         /\ ~IsNone(call[t].resolution_arg)
         /\ call[t].resolution_arg[1] \notin Resolutions) =>
            /\ call[t].outcome = "SpotHintaUnsupportedResolutionError"
            /\ call[t].requests = 0
            /\ ~call[t].created_session

\* The outcome the response decides, as the error taxonomy lists it.
OutcomeFor(seen) ==
    IF seen.kind = "timeout" THEN "SpotHintaConnectionError"
    ELSE IF seen.kind = "http" /\ seen.status = 429
    THEN "SpotHintaRateLimitError"
    ELSE IF seen.kind # "http" \/ seen.status \notin 200..299
    THEN "SpotHintaConnectionError"
    ELSE IF ~HasJson(seen.content_type) THEN "SpotHintaError"
    ELSE IF seen.empty THEN "SpotHintaNoDataError"
    ELSE "Electricity"

ExtremesAgree(partition, lowest, highest) ==
    /\ IsNone(lowest) <=> Len(partition) = 0
    /\ IsNone(highest) <=> Len(partition) = 0
    /\ (~IsNone(lowest) /\ ~IsNone(highest)) => lowest[1] <= highest[1]

AverageWithin(partition, lowest, average, highest) ==
    /\ IsNone(average) <=> Len(partition) = 0
    /\ ~IsNone(average) =>
        /\ ~IsNone(lowest) /\ ~IsNone(highest)
        /\ lowest[1] <= average[1]
        /\ average[1] <= highest[1]

QueryStep ==
    /\ ~IsNone(energy)
    /\ ~IsNone(result')
    /\ result'[1].op \in {"read", "price_at_time"}

Owned == 1..created

\* C12: a session the client owns is closed exactly once: however many
\* fetches ran and however often close() or __aexit__ is called, the client
\* never awaits session.close() on an owned session a second time.
C12_OwnedSessionClosedOnce ==
    \A s \in Owned : closes[s] <= 1

\* C18: a session supplied by the caller is never closed by the client: at
\* every point of every run of fetches and close() calls the client holds
\* that session, has not awaited close() on it, and _close_session is False.
C18_SuppliedSessionNeverClosed ==
    (created = 0 /\ ~IsNone(session)) =>
        /\ session = Some(0)
        /\ closes[0] = 0
        /\ close_session = FALSE

\* C18's case: on a client holding the caller's session one fetch has
\* returned a series and another has failed, and the session is open.
C18_Witness ==
    /\ session = Some(0)
    /\ closes[0] = 0
    /\ \E t, u \in Tasks :
        /\ call[t].outcome = "Electricity"
        /\ call[t].via = Some(0)
        /\ call[u].outcome = "SpotHintaConnectionError"
        /\ call[u].via = Some(0)

\* C19: a client constructed without a session makes at most one session in
\* its lifetime, however its concurrent fetches interleave; every fetch calls
\* request() on that one session; and the session made is the one the client
\* holds, with _close_session set, so that close() releases it.
C19_OneSessionForConcurrentFetches ==
    session # Some(0) =>
        /\ created <= 1
        /\ created = 0 => IsNone(session)
        /\ created = 1 => (session = Some(1) /\ close_session)
        /\ \A t \in Tasks : ~IsNone(call[t].via) => call[t].via = session

\* C19's case: two fetches are in flight at once on a client constructed
\* without a session, both over the one session the first of them made.
C19_Witness ==
    /\ created = 1
    /\ \E t, u \in Tasks :
        /\ t # u
        /\ call[t].pc = "request" /\ call[t].created_session
        /\ call[u].pc = "request" /\ ~call[u].created_session
        /\ call[t].via = Some(1) /\ call[u].via = Some(1)

\* C20: the client never issues a request over a session it has closed: when
\* a fetch calls request() on a session, close() has not run on that session.
C20_NoRequestOverClosedSession ==
    [][\A t \in Tasks :
        (IsNone(call[t].via) /\ ~IsNone(call'[t].via)) =>
            closes[call'[t].via[1]] = 0]_vars

\* C13: for a nonempty series with no entry on today's date (the date of
\* now() in the reference zone), the five today-scoped extremes are absent,
\* timestamp_prices_today is empty, the equal-or-lower count is 0, and
\* timestamp_prices still lists every entry.
C13_EmptyTodayGivesAbsentValues ==
    (/\ IsRead
     /\ Len(energy[1].prices) > 0
     /\ Len(DayPartition(energy[1], 0)) = 0) =>
        /\ IsNone(result[1].lowest_price_today)
        /\ IsNone(result[1].highest_price_today)
        /\ IsNone(result[1].average_price_today)
        /\ IsNone(result[1].lowest_price_time_today)
        /\ IsNone(result[1].highest_price_time_today)
        /\ result[1].timestamp_prices_today = << >>
        /\ result[1].hours_priced_equal_or_lower = 0
        /\ Len(result[1].timestamp_prices) = Len(energy[1].prices)

\* The time returned for a day's extreme price is absent exactly when the
\* day's partition is empty; otherwise it is the timestamp of an entry of
\* the partition whose price is the extreme one (lowest if lowest, else
\* highest) and rounds to the extreme price returned, and no entry before it
\* in insertion order has the same price.
PriceTimeAgrees(partition, time, price, lowest) ==
    /\ IsNone(time) <=> Len(partition) = 0
    /\ ~IsNone(time) =>
        \E i \in 1..Len(partition) :
            /\ partition[i].timestamp = time[1]
            /\ \A j \in 1..Len(partition) :
                    IF lowest THEN partition[i].price <= partition[j].price
                    ELSE partition[i].price >= partition[j].price
            /\ price = Some(round5(partition[i].price))
            /\ \A j \in 1..(i - 1) : partition[j].price # partition[i].price

\* C17: for today and for tomorrow, lowest_price_time and highest_price_time
\* are absent exactly when the day's partition (the entries dated, in the
\* reference zone, on that day of now()) is empty, and otherwise name the
\* first entry of the partition, in insertion order, that holds the day's
\* extreme price, which rounds to the lowest_price / highest_price returned.
C17_ExtremeTimeInDayPartition ==
    IsRead =>
        LET today == DayPartition(energy[1], 0)
            tomorrow == DayPartition(energy[1], 1)
        IN  /\ PriceTimeAgrees(today, result[1].lowest_price_time_today,
                               result[1].lowest_price_today, TRUE)
            /\ PriceTimeAgrees(today, result[1].highest_price_time_today,
                               result[1].highest_price_today, FALSE)
            /\ PriceTimeAgrees(tomorrow, result[1].lowest_price_time_tomorrow,
                               result[1].lowest_price_tomorrow, TRUE)
            /\ PriceTimeAgrees(tomorrow, result[1].highest_price_time_tomorrow,
                               result[1].highest_price_tomorrow, FALSE)

====
